---- MODULE Spec2Model ----
(***************************************************************************)
(* Model of moex_iss: the paginated history fetch                          *)
(* MOEXClient.get_historical_data (src/moex_iss/client.py) and the server  *)
(* responses it consumes.                                                  *)
(*                                                                         *)
(* A state is a blocking point of the fetch: the client has issued a page  *)
(* request and waits for the decoded JSON (pc = "first" / "next"), or no   *)
(* call is running (pc = "idle" / "done").  One action handles one         *)
(* response and runs the code up to the next request or to the return.     *)
(*                                                                         *)
(* Environment: the server answers every request with a failure or with a  *)
(* decoded JSON document; the number of rows, their trade dates and the    *)
(* cursor section are arbitrary.  The columns the server sends are fixed   *)
(* (schema), and a declared total is a natural number.                     *)
(***************************************************************************)
EXTENDS Integers, Sequences, FiniteSets, TLC

\* ---- bounds of the model ------------------------------------------------
MaxPage  == 2      \* largest page limit of a server
MaxTotal == 3      \* largest total a cursor declares
MaxDate  == 2      \* trade dates are 1..MaxDate

Dates == 1..MaxDate

VARIABLES
    pc,           \* "idle" | "first" | "next" | "done"
    requests,     \* the requests of the running fetch, in order
    responses,    \* what the server answered, in order
    df,           \* the accumulated DataFrame (sequence of rows)
    df_columns,   \* columns of df
    cursor_data,  \* local cursor_data of the running call
    outcome,      \* "none" | "table" | "empty" | "raised"
    result,       \* the returned DataFrame
    log,          \* levels of the records the running call has logged
    url,          \* local url of the running call
    params,       \* local params dict of the running call
    args,         \* the arguments the running call was given
    prev,         \* the previous fetch made through the same client
    schema,       \* the columns the server sends
    page_limit,   \* most rows the server puts in one page
    total_limit,  \* largest total the server declares
    today,        \* the day datetime.now() falls on
    run,          \* the CLI process: "none" | "running" | "exited"
    entry,        \* how the process was started: "cli" | "package"
    command,      \* the parsed command line
    remaining,    \* the indices the batch loop has not reached yet
    recorded,     \* the outcome recorded for each index, in order
    dirs,         \* the directories that exist
    files,        \* the files that exist
    exit_code,    \* exit status of the process, -1 while it runs
    return_code,  \* what main() returned, -1 before it returns
    registry,     \* the dicts EQUITY_INDICES and BOND_INDICES
    csv           \* the call of download_to_csv and what it returned

fetchVars ==
    <<pc, requests, responses, df, df_columns, cursor_data, outcome, result, log>>
callVars == <<url, params, args>>
batchVars ==
    <<run, entry, command, remaining, recorded, dirs, files, exit_code,
      return_code, registry, csv>>
serverVars == <<schema, page_limit, total_limit, today>>
envVars == <<prev, serverVars, batchVars>>

vars == <<fetchVars, callVars, envVars>>

\* ---- dates ---------------------------------------------------------------
\* A datetime is the number of its day, counted from 1970-01-01; the text
\* 'YYYY-MM-DD' is the tuple <<YYYY, MM, DD>>.

\* The day number of the civil date y-m-d (proleptic Gregorian calendar).
DaysFromCivil(y, m, d) ==
    LET yy  == IF m <= 2 THEN y - 1 ELSE y
        era == yy \div 400
        yoe == yy - era * 400
        mp  == IF m > 2 THEN m - 3 ELSE m + 9
        doy == (153 * mp + 2) \div 5 + d - 1
        doe == yoe * 365 + yoe \div 4 - yoe \div 100 + doy
    IN era * 146097 + doe - 719468

\* datetime.strftime('%Y-%m-%d')
Strftime(day) ==
    LET z   == day + 719468
        era == z \div 146097
        doe == z - era * 146097
        yoe == (doe - doe \div 1460 + doe \div 36524 - doe \div 146096) \div 365
        doy == doe - (365 * yoe + yoe \div 4 - yoe \div 100)
        mp  == (5 * doy + 2) \div 153
        d   == doy - (153 * mp + 2) \div 5 + 1
        m   == IF mp < 10 THEN mp + 3 ELSE mp - 9
        y   == yoe + era * 400
    IN <<IF m <= 2 THEN y + 1 ELSE y, m, d>>

\* pd.to_datetime of a 'YYYY-MM-DD' cell
ToDatetime(text) == DaysFromCivil(text[1], text[2], text[3])

\* The TRADEDATE cell of the n-th trading day the server knows:
\* 2023-12-31, 2024-01-01, ...
TradeDate(n) == Strftime(DaysFromCivil(2023, 12, 30) + n)

\* ---- JSON documents the server can send ----------------------------------

\* A row of history.data.  (req, pos) identifies the row: the pos-th row of
\* the answer to the req-th request.  date is the TRADEDATE cell, <<>> when
\* the schema has no such column.
Rows(k, dates) ==
    [j \in 1..Len(dates) |->
        [req |-> k, pos |-> j,
         date |-> IF dates[j] = 0 THEN <<>> ELSE TradeDate(dates[j])]]

PlainColumns == {"CLOSE"}
DatedColumns == {"TRADEDATE", "CLOSE"}

\* The 'history.cursor' section: missing, present without a 'data' key,
\* or present with data = [] or data = [[INDEX, TOTAL, PAGESIZE]].
CursorSections ==
    {[sec |-> "absent", data |-> <<>>], [sec |-> "nodata", data |-> <<>>],
     [sec |-> "data", data |-> <<>>]}
    \cup {[sec |-> "data", data |-> << <<0, t, page_limit>> >>] : t \in 0..total_limit}

DateSeqs(cols) ==
    IF "TRADEDATE" \in cols
    THEN UNION {[1..n -> Dates] : n \in 0..page_limit}
    ELSE {[j \in 1..n |-> 0] : n \in 0..page_limit}

\* Decoded bodies the server can send as the k-th response: a document with a
\* 'history' section, or one without it.
OkResponses(k, cursors) ==
    UNION {{[kind |-> "ok", history |-> TRUE, columns |-> cols,
             rows |-> Rows(k, d), cursor |-> c] :
                d \in DateSeqs(cols), c \in cursors} :
           cols \in {schema}}
    \cup {[kind |-> "ok", history |-> FALSE, columns |-> {},
           rows |-> <<>>, cursor |-> c] : c \in cursors}

\* Cursor sections of later pages (the loop never reads them).
LaterCursors ==
    {[sec |-> "absent", data |-> <<>>], [sec |-> "data", data |-> <<>>],
     [sec |-> "data", data |-> << <<0, 0, page_limit>> >>],
     [sec |-> "data", data |-> << <<0, total_limit, page_limit>> >>]}

\* A request that fails in _make_request or in response.json().
Failure ==
    [kind |-> "fail", history |-> FALSE, columns |-> {}, rows |-> <<>>,
     cursor |-> [sec |-> "absent", data |-> <<>>]]

\* ---- get_historical_data, expression by expression -----------------------


\* Variant: only the presence of the 'history' section is tested.
HasRowsAnyHistory(data) == data.history

\* 'history' in data and data['history']['data']
HasRows(data) == data.history /\ data.rows # <<>>


\* Variant: a missing cursor means "total unknown, page until an empty page".
CursorDataKeepPaging(data) ==
    IF data.cursor.sec = "data" THEN data.cursor.data
    ELSE << <<0, MaxTotal + MaxPage, 0>> >>

\* data.get('history.cursor', {}).get('data', [[0, 0, 0]])
CursorData(data) ==
    IF data.cursor.sec = "data" THEN data.cursor.data ELSE << <<0, 0, 0>> >>

\* cursor_data[0][1]
TotalRecords(cd) == cd[1][2]


\* Variants of the loop test.
LoopCondInclusive(d, total) == Len(d) <= total
LoopCondUntilEqual(d, total) == Len(d) # total
LoopCondOffByOne(d, total) == Len(d) + 1 < total

\* while len(df) < total_records
LoopCond(d, total) == Len(d) < total

\* Variant: the cursor section of the page just read replaces the first one.
LoopCursorFollowsPages(cd, more_data) ==
    IF more_data.cursor.sec = "data" /\ more_data.cursor.data # <<>>
    THEN more_data.cursor.data
    ELSE cd

\* Lines 527-538: the loop assigns neither cursor_data nor total_records;
\* more_data['history.cursor'] is not read.
LoopCursor(cd, more_data) == cd

\* if cursor_data: ... while ...: does the code issue another request?
Continues(d, cd) == cd # <<>> /\ LoopCond(d, TotalRecords(cd))


\* Variant: a 1-based offset.
NextStartOneBased(d) == Len(d) + 1

\* params['start'] = len(df)
NextStart(d) == Len(d)


\* Variant: the new page is put in front.
ConcatPrepend(d, more) == more \o d

\* pd.concat([df, more_df], ignore_index=True)
Concat(d, more) == d \o more

RowSet(d) == {d[i] : i \in 1..Len(d)}

\* Variant: the latest date first (ascending=False).
MinDateLatest(S) == CHOOSE m \in {r.date : r \in S} : \A r \in S : m >= r.date

MinDate(S) == CHOOSE m \in {r.date : r \in S} : \A r \in S : m <= r.date

\* Every arrangement of the rows S in ascending date order.
RECURSIVE Ascending(_)
Ascending(S) ==
    IF S = {} THEN {<<>>}
    ELSE UNION {{<<r>> \o t : t \in Ascending(S \ {r})} :
                r \in {x \in S : x.date = MinDate(S)}}

\* df.sort_values('TRADEDATE'): kind defaults to 'quicksort', which numpy
\* documents as not stable, so rows of one date may come out in any order.
SortValues(d) == Ascending(RowSet(d))

\* df['TRADEDATE'] = pd.to_datetime(df['TRADEDATE'])
ToDatetimeColumn(d) ==
    [i \in 1..Len(d) |-> [d[i] EXCEPT !.date = ToDatetime(@)]]

\* if 'TRADEDATE' in df.columns: ... sort_values; return df
Finalized(d, cols) ==
    IF "TRADEDATE" \in cols THEN SortValues(ToDatetimeColumn(d)) ELSE {d}

\* ---- the arguments and the request of a call ------------------------------

\* A date argument: None, a 'YYYY-MM-DD' string or a datetime.
NoDate == [kind |-> "none", text |-> <<>>, day |-> 0]
DateStr(y, m, d) == [kind |-> "str", text |-> <<y, m, d>>, day |-> 0]
DateTime(day) == [kind |-> "datetime", text |-> <<>>, day |-> day]

\* timedelta(days=30)
DefaultDays == 30

\* interval: int = 24
DailyInterval == 24

\* Variant: the default window is a calendar month of 31 days.
DefaultFromMonth(from_date, now) ==
    IF from_date.kind = "none" THEN DateTime(now - 31) ELSE from_date

\* if from_date is None: from_date = datetime.now() - timedelta(days=30)
DefaultFrom(from_date, now) ==
    IF from_date.kind = "none" THEN DateTime(now - DefaultDays) ELSE from_date

\* if till_date is None: till_date = datetime.now()
DefaultTill(till_date, now) ==
    IF till_date.kind = "none" THEN DateTime(now) ELSE till_date

\* if isinstance(d, datetime): d = d.strftime('%Y-%m-%d')
DateString(d) == IF d.kind = "datetime" THEN Strftime(d.day) ELSE d.text

\* f"{HISTORY_URL}/engines/{engine}/markets/{market}/boards/{board}/securities/{security}"
Url(engine, market, board, security) ==
    <<"history", "engines", engine, "markets", market,
      "boards", board, "securities", security>>

\* Variant: the dates are put in order before they are sent.
FirstParamsOrdered(from, till, interval) ==
    IF ToDatetime(till) < ToDatetime(from)
    THEN [from |-> till, till |-> from, interval |-> interval, start |-> 0,
          lang |-> ""]
    ELSE [from |-> from, till |-> till, interval |-> interval, start |-> 0,
          lang |-> ""]

\* Variant: the dict outlives the call and keeps its last 'start'.
FirstParamsStale(from, till, interval) ==
    [from |-> from, till |-> till, interval |-> interval,
     start |-> params.start, lang |-> ""]

\* params = {'from': ..., 'till': ..., 'interval': ..., 'start': 0}
FirstParams(from, till, interval) ==
    [from |-> from, till |-> till, interval |-> interval, start |-> 0,
     lang |-> ""]

\* Variant: the dict is built anew for every page.
NextParamsRebuilt(p, d) ==
    [from |-> <<>>, till |-> <<>>, interval |-> DailyInterval,
     start |-> Len(d), lang |-> ""]

\* params['start'] = len(df)
NextParams(p, d) == [p EXCEPT !.start = NextStart(d)]

\* _make_request: if 'lang' not in params: params['lang'] = 'ru'
WithLang(p) == IF p.lang = "" THEN [p EXCEPT !.lang = "ru"] ELSE p

\* What session.get(url + '.json', params=params) puts on the wire.
RequestOf(u, p) ==
    [url |-> u \o <<".json">>, from |-> p.from, till |-> p.till,
     interval |-> p.interval, start |-> p.start, lang |-> p.lang]

Request(start) == RequestOf(url, [params EXCEPT !.start = start])

NoParams ==
    [from |-> <<>>, till |-> <<>>, interval |-> 0, start |-> 0, lang |-> ""]

Args(engine, market, board, security, from_date, till_date, interval) ==
    [engine |-> engine, market |-> market, board |-> board,
     security |-> security, from_date |-> from_date, till_date |-> till_date,
     interval |-> interval]

NoArgs == Args("", "", "", "", NoDate, NoDate, 0)

NoFetch ==
    [requests |-> <<>>, responses |-> <<>>, df |-> <<>>, outcome |-> "none",
     result |-> <<>>]

\* The first entries of EQUITY_INDICES and BOND_INDICES, in dict order.
EquityCodes == <<"IMOEX", "RTSI">>
BondCodes == <<"RGBI", "RGBITR">>

EQUITY_INDICES ==
    [c \in {"IMOEX", "RTSI"} |->
        [board |-> IF c = "RTSI" THEN "RTSI" ELSE "SNDX"]]

BOND_INDICES == [c \in {"RGBI", "RGBITR"} |-> [board |-> "SNDX"]]

\* The two dicts as the module defines them.
Registry == [equity |-> EQUITY_INDICES, bonds |-> BOND_INDICES]

\* download_to_csv has not been called.
NoCsv ==
    [state |-> "none", index_code |-> "", output_path |-> "",
     fetched |-> "none", saved |-> "none", value |-> "none"]

\* No command line has been parsed.
NoCommand ==
    [name |-> "", indices |-> <<>>, start |-> NoDate, end |-> NoDate,
     output |-> ""]

\* The day of the run: 2024-01-15.
RunDay == DaysFromCivil(2024, 1, 15)

\* ---- state machine -------------------------------------------------------

\* df = get_index_history('IMOEX', start_date='2024-01-01')
ExampleArgs ==
    Args("stock", "index", "SNDX", "IMOEX", DateStr(2024, 1, 1), NoDate,
         DailyInterval)

\* No call has been made through the client.
Start ==
    /\ pc = "idle"
    /\ requests = <<>>
    /\ responses = <<>>
    /\ df = <<>>
    /\ df_columns = {}
    /\ cursor_data = <<>>
    /\ outcome = "none"
    /\ result = <<>>
    /\ log = <<>>
    /\ url = <<>>
    /\ params = NoParams
    /\ args = NoArgs
    /\ prev = NoFetch
    /\ run = "none"
    /\ entry = "none"
    /\ command = NoCommand
    /\ remaining = <<>>
    /\ recorded = <<>>
    /\ dirs = {}
    /\ files = {}
    /\ exit_code = -1
    /\ return_code = -1
    /\ registry = Registry
    /\ csv = NoCsv

\* The server sends rows without trade dates, MaxPage to a page, or rows with
\* trade dates, one fewer to a page.
Init ==
    /\ Start
    /\ \/ schema = PlainColumns /\ page_limit = MaxPage
       \/ schema = DatedColumns /\ page_limit = MaxPage - 1
    /\ total_limit = MaxTotal
    /\ today = RunDay

\* Lines 478-505: defaults, date strings, url, params, the first request.
CallWith(a) ==
    LET from_date == DateString(DefaultFrom(a.from_date, today))
        till_date == DateString(DefaultTill(a.till_date, today))
    IN  /\ args' = a
        /\ url' = Url(a.engine, a.market, a.board, a.security)
        /\ params' = WithLang(FirstParams(from_date, till_date, a.interval))
        /\ requests' = <<RequestOf(url', params')>>
        /\ pc' = "first"
        /\ responses' = <<>>
        /\ df' = <<>>
        /\ df_columns' = {}
        /\ cursor_data' = <<>>
        /\ outcome' = "none"
        /\ result' = <<>>
        /\ log' = <<>>

\* A call of get_historical_data.
Call ==
    /\ pc = "idle"
    /\ CallWith(ExampleArgs)
    /\ UNCHANGED envVars

\* Dates a caller may pass: none, strings, datetimes.
DateArgs ==
    {NoDate, DateStr(2024, 1, 10), DateStr(2024, 2, 1),
     DateTime(DaysFromCivil(2024, 1, 20)), DateTime(DaysFromCivil(2023, 12, 31))}

SomeArgs ==
    {Args("stock", "index", "SNDX", "IMOEX", f, t, iv) :
        f \in DateArgs, t \in DateArgs, iv \in {DailyInterval, 1}}

\* A call of get_historical_data with any of these arguments.
CallAny ==
    /\ pc = "idle"
    /\ \E a \in SomeArgs : CallWith(a)
    /\ UNCHANGED envVars

\* The server is deterministic: a request it has answered in the previous
\* fetch gets the same answer again.
SameContent(a, b) ==
    /\ a.kind = b.kind
    /\ a.history = b.history
    /\ a.columns = b.columns
    /\ a.cursor = b.cursor
    /\ Len(a.rows) = Len(b.rows)
    /\ \A i \in 1..Len(a.rows) : a.rows[i].date = b.rows[i].date

Consistent(data) ==
    \A j \in 1..Len(prev.requests) :
        prev.requests[j] = requests[Len(requests)] =>
            SameContent(data, prev.responses[j])


\* Variant: the failure is swallowed and the pages fetched so far returned.
RaiseReturnsPartial(d) ==
    /\ pc' = "done"
    /\ outcome' = IF d = <<>> THEN "empty" ELSE "table"
    /\ result' = d
    /\ log' = Append(log, "error")
    /\ UNCHANGED <<requests, params>>

\* Lines 189-191: except RequestException: logger.error(...); raise.  What
\* response.json() raises is not logged.
RaiseLog(l) == {Append(l, "error"), l}

\* The exception of _make_request / response.json() leaves the call.
Raise(d) ==
    /\ pc' = "done"
    /\ outcome' = "raised"
    /\ result' = <<>>
    /\ log' \in RaiseLog(log)
    /\ UNCHANGED <<requests, params>>

\* Lines 545-548: logger.info(...) is all that is logged on the way out of
\* the loop, whether it ended by its test or by break.
ReturnLog(l, d) == Append(l, "info")

\* Lines 540-550: date conversion, sort, return df.  The sort is a function
\* of its input: the table sorted in the previous fetch comes out the same.
Return(d, cols) ==
    /\ pc' = "done"
    /\ outcome' = "table"
    /\ log' = ReturnLog(log, d)
    /\ result' \in Finalized(d, cols)
    /\ (prev.outcome = "table" /\ prev.df = d) => result' = prev.result
    /\ UNCHANGED <<requests, params>>

\* Lines 528-529: the next page request.
IssueNext(d) ==
    /\ params' = WithLang(NextParams(params, d))
    /\ requests' = Append(requests, RequestOf(url, params'))
    /\ pc' = "next"
    /\ UNCHANGED <<outcome, result, log>>

\* The first request fails.
FirstFail ==
    /\ pc = "first"
    /\ Consistent(Failure)
    /\ responses' = Append(responses, Failure)
    /\ Raise(df)
    /\ UNCHANGED <<df, df_columns, cursor_data, url, args, envVars>>

\* Lines 508-512: no 'history' section or no rows: return pd.DataFrame().
FirstEmpty ==
    /\ pc = "first"
    /\ \E data \in OkResponses(1, CursorSections) :
          /\ Consistent(data)
          /\ ~HasRows(data)
          /\ responses' = Append(responses, data)
    /\ pc' = "done"
    /\ outcome' = "empty"
    /\ result' = <<>>
    /\ log' = Append(log, "warning")
    /\ UNCHANGED <<requests, df, df_columns, cursor_data, callVars, envVars>>

\* Lines 515-529: first page with rows; read the cursor, enter the loop.
FirstPage ==
    /\ pc = "first"
    /\ \E data \in OkResponses(1, CursorSections) :
          /\ Consistent(data)
          /\ HasRows(data)
          /\ responses' = Append(responses, data)
          /\ df' = data.rows
          /\ df_columns' = data.columns
          /\ cursor_data' = CursorData(data)
          /\ IF Continues(df', cursor_data')
             THEN IssueNext(df')
             ELSE Return(df', df_columns')
    /\ UNCHANGED <<url, args, envVars>>

\* A later request fails.
NextFail ==
    /\ pc = "next"
    /\ Consistent(Failure)
    /\ responses' = Append(responses, Failure)
    /\ Raise(df)
    /\ UNCHANGED <<df, df_columns, cursor_data, url, args, envVars>>


\* Variant: a short fetch is reported as an error.
NextEmptyRaises ==
    /\ pc = "next"
    /\ \E data \in OkResponses(Len(requests), LaterCursors) :
          /\ ~(data.history /\ data.rows # <<>>)
          /\ responses' = Append(responses, data)
    /\ pc' = "done"
    /\ outcome' = "raised"
    /\ result' = <<>>
    /\ log' = Append(log, "error")
    /\ UNCHANGED <<requests, df, df_columns, cursor_data, callVars, envVars>>

\* Lines 537-538: a later page without rows: break.
NextEmpty ==
    /\ pc = "next"
    /\ \E data \in OkResponses(Len(requests), LaterCursors) :
          /\ Consistent(data)
          /\ ~HasRows(data)
          /\ responses' = Append(responses, data)
    /\ Return(df, df_columns)
    /\ UNCHANGED <<df, df_columns, cursor_data, url, args, envVars>>

\* Lines 531-536 and the loop test: a later page with rows is appended.
NextPage ==
    /\ pc = "next"
    /\ \E data \in OkResponses(Len(requests), LaterCursors) :
          /\ Consistent(data)
          /\ HasRows(data)
          /\ data.columns = df_columns
          /\ responses' = Append(responses, data)
          /\ df' = Concat(df, data.rows)
          /\ cursor_data' = LoopCursor(cursor_data, data)
          /\ IF LoopCond(df', TotalRecords(cursor_data'))
             THEN IssueNext(df')
             ELSE Return(df', df_columns)
    /\ UNCHANGED <<df_columns, url, args, envVars>>

\* A second call with the arguments of the first, through the same client,
\* on the same day.  The locals of the first call are gone; what it requested
\* and got is kept in prev.
CallAgain ==
    /\ pc = "done"
    /\ prev = NoFetch
    /\ prev' = [requests |-> requests, responses |-> responses, df |-> df,
                outcome |-> outcome, result |-> result]
    /\ CallWith(args)
    /\ UNCHANGED <<serverVars, batchVars>>

\* The steps of a fetch after its first request.
Fetch ==
    \/ FirstFail
    \/ FirstEmpty
    \/ FirstPage
    \/ NextFail
    \/ NextEmpty
    \/ NextPage

Next ==
    \/ Call
    \/ FirstFail
    \/ FirstEmpty
    \/ FirstPage
    \/ NextFail
    \/ NextEmpty
    \/ NextPage

Spec == Init /\ [][Next]_vars

\* Every request is answered or fails (session.get returns or raises within
\* the timeout), so a waiting fetch takes its next step.
\* The rows carry no trade dates here: no step of the loop reads a cell.
PlainInit ==
    /\ Start
    /\ schema = PlainColumns
    /\ page_limit = MaxPage
    /\ total_limit = MaxTotal
    /\ today = RunDay

\* Two fetches in a row, against a server that sends one row per page.
TwiceInit ==
    /\ Start
    /\ schema = DatedColumns
    /\ page_limit = 1
    /\ total_limit = MaxTotal
    /\ today = RunDay

NextTwice ==
    \/ Call
    \/ CallAgain
    \/ FirstFail
    \/ FirstEmpty
    \/ FirstPage
    \/ NextFail
    \/ NextEmpty
    \/ NextPage

TwiceSpec == TwiceInit /\ [][NextTwice]_vars

\* Calls with any dates, on one of two days, for a schema without dates.
ArgsInit ==
    /\ Start
    /\ schema = PlainColumns
    /\ page_limit = MaxPage
    /\ total_limit = MaxTotal
    /\ today \in {RunDay, DaysFromCivil(2024, 3, 15)}

NextArgs ==
    \/ CallAny
    \/ FirstFail
    \/ FirstEmpty
    \/ FirstPage
    \/ NextFail
    \/ NextEmpty
    \/ NextPage

ArgsSpec == ArgsInit /\ [][NextArgs]_vars

\* ---- the registries, download_index and the command line ------------------

MaxIndices == 2    \* most index codes on one command line

\* Variant: the registries are not consulted.
BoardDefault(index_code) == "SNDX"

\* board = "SNDX"; if index_code in EQUITY_INDICES: ... elif in BOND_INDICES
Board(index_code) ==
    IF index_code \in DOMAIN registry.equity
    THEN registry.equity[index_code].board
    ELSE IF index_code \in DOMAIN registry.bonds
         THEN registry.bonds[index_code].board
         ELSE "SNDX"

\* Variant: a start date left out is passed on as None.
StartDateUnset(start_date) == start_date

\* if start_date is None: start_date = "2010-01-01"
StartDate(start_date) ==
    IF start_date.kind = "none" THEN DateStr(2010, 1, 1) ELSE start_date

\* if end_date is None: end_date = datetime.now().strftime('%Y-%m-%d')
EndDate(end_date, now) ==
    IF end_date.kind = "none"
    THEN [kind |-> "str", text |-> Strftime(now), day |-> 0]
    ELSE end_date

\* client.get_index_history(index_code, start_date=..., end_date=..., board=board)
IndexArgs(index_code, start_date, end_date, now) ==
    Args("stock", "index", Board(index_code), index_code,
         StartDate(start_date), EndDate(end_date, now), DailyInterval)

\* filepath = output_path / f"{index_code}_{date_suffix}.csv", with
\* date_suffix = datetime.now().strftime('%Y%m%d')
FilePath(output_dir, index_code, now) ==
    <<output_dir, index_code, "_">> \o Strftime(now) \o <<".csv">>

\* Variant: the table is saved before it is tested for emptiness.
SavesEmptyToo(fetched) == fetched \in {"table", "empty"}

\* download_index goes on to save unless the fetch raised or df.empty.
Saves(fetched) == fetched = "table"

\* What saving can do: mkdir and to_csv succeed ("ok"); mkdir raises
\* ("mkdir"); to_csv raises before it creates the file ("open") or after
\* ("write").  Nothing is saved ("none") when download_index returned before.
SaveOutcomes(fetched) ==
    IF Saves(fetched) THEN {"ok", "mkdir", "open", "write"} ELSE {"none"}

\* output_path.mkdir(parents=True, exist_ok=True)
DirsAfter(ds, output_dir, saved) ==
    IF saved \in {"ok", "open", "write"} THEN ds \cup {output_dir} ELSE ds

\* df.to_csv(filepath, ...): the file is created or truncated, then filled.
FilesAfter(fs, path, saved) ==
    IF saved \in {"ok", "write"}
    THEN {f \in fs : f.path # path}
             \cup {[path |-> path, complete |-> (saved = "ok")]}
    ELSE fs

\* Variant: an empty result counts as downloaded.
ReturnsTableOrEmpty(fetched, saved) ==
    fetched = "empty" \/ (fetched = "table" /\ saved = "ok")

\* return df at the end of the try block; return None everywhere else.
ReturnsTable(fetched, saved) == fetched = "table" /\ saved = "ok"

\* What one pass of the batch loop leaves behind for an index.
Recorded(index_code, fetched, saved, path) ==
    [code |-> index_code, fetched |-> fetched, saved |-> saved,
     path |-> IF saved = "none" THEN <<>> ELSE path,
     ok |-> ReturnsTable(fetched, saved)]

\* Variant: the loop stops at the first index that failed.
RestStopOnFailure(todo, ok) == IF ok THEN Tail(todo) ELSE <<>>

\* for index_code in indices: the loop goes on whatever download_index returned.
Rest(todo, ok) == Tail(todo)

\* success_count of cmd_download: one per table returned.
SuccessCount(rec) == Cardinality({i \in 1..Len(rec) : rec[i].ok})

\* results of download_bond_indices / download_equity_indices: a dict, the
\* last outcome of a code replaces an earlier one.
Results(rec) ==
    [c \in {rec[i].code : i \in 1..Len(rec)} |->
        LET last == CHOOSE i \in 1..Len(rec) :
                        /\ rec[i].code = c
                        /\ \A j \in 1..Len(rec) : rec[j].code = c => j <= i
        IN  rec[last].ok]

\* return 0 if success_count == len(indices) else 1   (cmd_download)
\* return 0 if success_count == len(results) else 1   (download-bonds/-equity)
ReturnValue(cmd, rec) ==
    IF cmd.name = "download"
    THEN IF SuccessCount(rec) = Len(cmd.indices) THEN 0 ELSE 1
    ELSE LET results == Results(rec)
             success_count == Cardinality({c \in DOMAIN results : results[c]})
         IN  IF success_count = Cardinality(DOMAIN results) THEN 0 ELSE 1

\* cli.py ends with sys.exit(main()); __main__.py ends with main(), and a
\* script that runs to its end exits with status 0.
ExitStatus(how, value) == IF how = "cli" THEN value ELSE 0

\* Index codes a user may type: one of a registry, one of neither.
TypedCodes == {"IMOEX", "NOSUCH"}

RECURSIVE CodeLists(_)
CodeLists(n) ==
    IF n = 0 THEN {<<>>}
    ELSE {<<c>> \o l : c \in TypedCodes, l \in CodeLists(n - 1)}

Command(name, indices, start, end, output) ==
    [name |-> name, indices |-> indices, start |-> start, end |-> end,
     output |-> output]

\* --start and --end: both left out, or both given.
Periods == {<<NoDate, NoDate>>, <<DateStr(2024, 1, 10), DateStr(2024, 1, 12)>>}

\* The command lines of the three download commands; --output keeps its default.
CommandLines ==
    {Command("download", l, p[1], p[2], "./data") :
        l \in UNION {CodeLists(n) : n \in 1..MaxIndices}, p \in Periods}
    \cup {Command("download-bonds", BondCodes, p[1], p[2], "./data/bonds") :
            p \in Periods}
    \cup {Command("download-equity", EquityCodes, p[1], p[2], "./data/equity") :
            p \in Periods}

\* The process starts through cli.py or through __main__.py; main() parses
\* the command line and the command runs up to the first request of its
\* first index.
RunCommand ==
    /\ run = "none"
    /\ pc = "idle"
    /\ \E how \in {"cli", "package"}, cmd \in CommandLines :
        /\ entry' = how
        /\ command' = cmd
        /\ remaining' = cmd.indices
        /\ CallWith(IndexArgs(Head(cmd.indices), cmd.start, cmd.end, today))
    /\ run' = "running"
    /\ recorded' = <<>>
    /\ UNCHANGED <<prev, serverVars, dirs, files, exit_code,
                   return_code, registry, csv>>

\* get_index_history has returned or raised: download_index finishes, the
\* loop records the outcome and goes to the next index, up to its first
\* request; after the last index the command returns and the process exits.
IndexDone ==
    /\ run = "running"
    /\ remaining # <<>>
    /\ pc = "done"
    /\ \E saved \in SaveOutcomes(outcome) :
        LET index_code == Head(remaining)
            path == FilePath(command.output, index_code, today)
            ok == ReturnsTable(outcome, saved)
            rest == Rest(remaining, ok)
        IN  /\ dirs' = DirsAfter(dirs, command.output, saved)
            /\ files' = FilesAfter(files, path, saved)
            /\ recorded' =
                   Append(recorded, Recorded(index_code, outcome, saved, path))
            /\ remaining' = rest
            /\ IF rest # <<>>
               THEN /\ CallWith(IndexArgs(Head(rest), command.start,
                                          command.end, today))
                    /\ UNCHANGED <<run, exit_code, return_code>>
               ELSE /\ run' = "exited"
                    /\ return_code' = ReturnValue(command, recorded')
                    /\ exit_code' = ExitStatus(entry, return_code')
                    /\ UNCHANGED <<fetchVars, callVars>>
    /\ UNCHANGED <<prev, serverVars, entry, command, registry,
                   csv>>

\* A download command of the CLI against a server that sends one row per
\* page and declares two rows at most.
BatchInit ==
    /\ Start
    /\ schema = PlainColumns
    /\ page_limit = 1
    /\ total_limit = 2
    /\ today = RunDay

NextBatch ==
    \/ RunCommand
    \/ IndexDone
    \/ FirstFail
    \/ FirstEmpty
    \/ FirstPage
    \/ NextFail
    \/ NextEmpty
    \/ NextPage

BatchSpec == BatchInit /\ [][NextBatch]_vars

\* cmd_list: the two dicts are iterated and printed; return 0.
RunList ==
    /\ run = "none"
    /\ pc = "idle"
    /\ \E how \in {"cli", "package"} :
        /\ entry' = how
        /\ exit_code' = ExitStatus(how, 0)
    /\ command' = Command("list", <<>>, NoDate, NoDate, "")
    /\ return_code' = 0
    /\ run' = "exited"
    /\ UNCHANGED <<fetchVars, callVars, prev, serverVars,
                   remaining, recorded, dirs, files, registry, csv>>

\* cmd_info up to the first request of client.get_index_history(index_code):
\* the dicts are looked up, the fetch takes the defaults of the client.
RunInfo ==
    /\ run = "none"
    /\ pc = "idle"
    /\ \E how \in {"cli", "package"}, index_code \in TypedCodes \cup {"RTSI"} :
        /\ entry' = how
        /\ command' = Command("info", <<index_code>>, NoDate, NoDate, "")
        /\ CallWith(Args("stock", "index", "SNDX", index_code, NoDate, NoDate,
                         DailyInterval))
    /\ run' = "running"
    /\ UNCHANGED <<prev, serverVars, remaining, recorded, dirs,
                   files, exit_code, return_code, registry, csv>>

\* cmd_info after the fetch: the last row is printed and 0 returned; what
\* the fetch raised leaves main() and the interpreter exits with status 1.
InfoDone ==
    /\ run = "running"
    /\ command.name = "info"
    /\ pc = "done"
    /\ run' = "exited"
    /\ IF outcome = "raised"
       THEN exit_code' = 1 /\ UNCHANGED return_code
       ELSE return_code' = 0 /\ exit_code' = ExitStatus(entry, 0)
    /\ UNCHANGED <<fetchVars, callVars, prev, serverVars, entry,
                   command, remaining, recorded, dirs, files, registry, csv>>

\* The download, list and info commands of the CLI.
NextRegistry ==
    \/ RunCommand
    \/ IndexDone
    \/ RunList
    \/ RunInfo
    \/ InfoDone
    \/ FirstFail
    \/ FirstEmpty
    \/ FirstPage
    \/ NextFail
    \/ NextEmpty
    \/ NextPage

RegistrySpec == BatchInit /\ [][NextRegistry]_vars

\* ---- download_to_csv -----------------------------------------------------

\* if df.empty: return False, before anything is written.
CsvSaves(fetched) == fetched = "table"

\* What df.to_csv(output_path, ...) can do: succeed ("ok"), raise before it
\* creates the file ("open") or after ("write"); "none" when it is not
\* reached.
CsvSaveOutcomes(fetched) ==
    IF CsvSaves(fetched) THEN {"ok", "open", "write"} ELSE {"none"}

\* Variant: what the fetch raised is not caught.
CsvValueReraises(fetched, saved) ==
    IF fetched = "raised" THEN "raised"
    ELSE IF fetched = "table" /\ saved = "ok" THEN "True" ELSE "False"

\* return True after to_csv; return False on df.empty and in
\* 'except Exception'.
CsvValue(fetched, saved) ==
    IF fetched = "table" /\ saved = "ok" THEN "True" ELSE "False"

\* client.download_to_csv(index_code, 'out.csv', start_date, end_date, board)
\* up to the first request of get_index_history.
DownloadToCsv ==
    /\ csv.state = "none"
    /\ run = "none"
    /\ pc = "idle"
    /\ \E index_code \in TypedCodes, p \in Periods, board \in {"SNDX", "RTSI"} :
        /\ csv' = [NoCsv EXCEPT !.state = "running",
                                !.index_code = index_code,
                                !.output_path = "out.csv"]
        /\ CallWith(Args("stock", "index", board, index_code, p[1], p[2],
                         DailyInterval))
    /\ UNCHANGED <<prev, serverVars, run, entry, command,
                   remaining, recorded, dirs, files, exit_code, return_code,
                   registry>>

\* get_index_history has returned or raised: the rest of download_to_csv.
ToCsvDone ==
    /\ csv.state = "running"
    /\ pc = "done"
    /\ \E saved \in CsvSaveOutcomes(outcome) :
        /\ files' = FilesAfter(files, <<csv.output_path>>, saved)
        /\ csv' = [csv EXCEPT !.state = "returned",
                              !.fetched = outcome,
                              !.saved = saved,
                              !.value = CsvValue(outcome, saved)]
    /\ UNCHANGED <<fetchVars, callVars, prev, serverVars, run,
                   entry, command, remaining, recorded, dirs, exit_code,
                   return_code, registry>>

NextCsv ==
    \/ DownloadToCsv
    \/ ToCsvDone
    \/ FirstFail
    \/ FirstEmpty
    \/ FirstPage
    \/ NextFail
    \/ NextEmpty
    \/ NextPage

CsvSpec == PlainInit /\ [][NextCsv]_vars

FairSpec == PlainInit /\ [][Next]_vars /\ WF_vars(Fetch)

TypeOK ==
    /\ pc \in {"idle", "first", "next", "done"}
    /\ outcome \in {"none", "table", "empty", "raised"}
    /\ Len(requests) - Len(responses) \in {0, 1}

\* ---- vocabulary of the properties ---------------------------------------

Ceil(a, b) == (a + b - 1) \div b
Min(a, b) == IF a <= b THEN a ELSE b

RECURSIVE PagesBefore(_)
\* The rows of the responses 1..n-1, page after page.
PagesBefore(n) ==
    IF n <= 1 THEN <<>> ELSE PagesBefore(n - 1) \o responses[n - 1].rows

AllPages == PagesBefore(Len(responses) + 1)

\* b holds the rows of a, each once (rows are told apart by req and pos).
RowIds(d) == {<<d[i].req, d[i].pos>> : i \in 1..Len(d)}
SameRows(a, b) == Len(a) = Len(b) /\ RowIds(a) = RowIds(b)

LastResponse == responses[Len(responses)]

\* The first response's cursor section declares the total t.
Declares(t) ==
    /\ responses # <<>>
    /\ responses[1].cursor.sec = "data"
    /\ responses[1].cursor.data # <<>>
    /\ responses[1].cursor.data[1][2] = t

\* A page after the first came back without rows.
EarlyTermination ==
    /\ Len(responses) >= 2
    /\ LastResponse.kind = "ok"
    /\ LastResponse.rows = <<>>

\* So far the server declared T and served pages of P rows.
ServesPaged(T, P) ==
    /\ Declares(T)
    /\ \A i \in 1..Len(responses) :
          /\ responses[i].kind = "ok"
          /\ responses[i].history
          /\ Len(responses[i].rows) = Min(P, T - requests[i].start)

\* C1: against a server that declares T and serves pages of P rows, the
\* fetch returns a table of exactly T rows after exactly ceil(T/P) requests.
C1_PagedFetchIsComplete ==
    \A T \in 1..MaxTotal, P \in 1..MaxPage :
        (pc = "done" /\ ServesPaged(T, P)) =>
            /\ outcome = "table"
            /\ Len(result) = T
            /\ SameRows(result, AllPages)
            /\ Len(requests) = Ceil(T, P)

C1_Witness ==
    /\ pc = "done"
    /\ Len(requests) >= 2
    /\ \E T \in 1..MaxTotal, P \in 2..MaxPage : ServesPaged(T, P) /\ T % P # 0

\* C2: a later page without rows (or without 'history') while the table is
\* below the declared total ends the fetch: no further request, no error,
\* and the table returned holds exactly the rows of the earlier pages.
C2_EmptyPageStopsQuietly ==
    (/\ Len(responses) >= 2
     /\ LastResponse.kind = "ok"
     /\ ~(LastResponse.history /\ LastResponse.rows # <<>>)
     /\ cursor_data # <<>>
     /\ Len(PagesBefore(Len(responses))) < TotalRecords(cursor_data)) =>
        /\ pc = "done"
        /\ outcome = "table"
        /\ Len(requests) = Len(responses)
        /\ SameRows(result, PagesBefore(Len(responses)))
        /\ ("TRADEDATE" \notin df_columns => result = PagesBefore(Len(responses)))

C2_Witness ==
    /\ pc = "done"
    /\ Len(responses) = 3
    /\ ~LastResponse.history
    /\ LastResponse.kind = "ok"
    /\ Len(result) = 2
    /\ Declares(3)

\* C3: a first response without rows or without 'history' ends the fetch with
\* an empty table, no error and exactly one request, whatever its cursor.
C3_EmptyFirstPage ==
    (/\ responses # <<>>
     /\ responses[1].kind = "ok"
     /\ (~responses[1].history \/ responses[1].rows = <<>>)) =>
        /\ pc = "done"
        /\ outcome = "empty"
        /\ result = <<>>
        /\ Len(responses) = 1
        /\ requests = <<Request(0)>>

C3_Witness ==
    /\ pc = "done"
    /\ outcome = "empty"
    /\ responses[1].history
    /\ Declares(MaxTotal)

\* C4: a failed page request, first or later, ends the fetch by raising: no
\* table is returned, not even the rows of earlier pages, and no further
\* request is issued.
C4_FailurePropagates ==
    \A i \in 1..Len(responses) :
        responses[i].kind = "fail" =>
            /\ i = Len(responses)
            /\ pc = "done"
            /\ outcome = "raised"
            /\ result = <<>>
            /\ Len(requests) = Len(responses)

C4_Witness ==
    /\ Len(responses) = 3
    /\ LastResponse.kind = "fail"
    /\ Len(df) >= 2
    /\ outcome = "raised"

\* C5: a first response with rows and no cursor section: the table returned
\* holds exactly the first page's rows and there is no second request.
C5_NoCursorSection ==
    (/\ responses # <<>>
     /\ responses[1].kind = "ok"
     /\ responses[1].history /\ responses[1].rows # <<>>
     /\ responses[1].cursor.sec = "absent") =>
        /\ pc = "done"
        /\ outcome = "table"
        /\ Len(requests) = 1
        /\ SameRows(result, responses[1].rows)
        /\ ("TRADEDATE" \notin df_columns => result = responses[1].rows)

C5_Witness ==
    /\ pc = "done"
    /\ outcome = "table"
    /\ responses[1].cursor.sec = "absent"
    /\ Len(result) = MaxPage

\* C6: a first response with rows whose cursor declares 0, or any total not
\* above the number of rows of the first page: no further request, and the
\* first page's rows are returned.
C6_TotalWithinFirstPage ==
    \A t \in 0..MaxTotal :
        (/\ Declares(t)
         /\ responses[1].kind = "ok"
         /\ responses[1].history /\ responses[1].rows # <<>>
         /\ t <= Len(responses[1].rows)) =>
            /\ pc = "done"
            /\ outcome = "table"
            /\ Len(requests) = 1
            /\ SameRows(result, responses[1].rows)

C6_Witness ==
    /\ pc = "done"
    /\ Declares(0)
    /\ Len(result) >= 1

\* C7: the requests of a fetch go out one at a time: the first has offset 0,
\* a later one is issued only when every earlier one has been answered, its
\* offset is the number of rows of all earlier pages, and the offsets are
\* strictly increasing.
C7_SequentialOffsets ==
    /\ Len(requests) - Len(responses) \in {0, 1}
    /\ (pc \in {"first", "next"}) <=> (Len(requests) = Len(responses) + 1)
    /\ requests # <<>> => requests[1].start = 0
    /\ \A i \in 2..Len(requests) :
          /\ requests[i].start = Len(PagesBefore(i))
          /\ requests[i].start > requests[i - 1].start

C7_Witness ==
    /\ pc = "next"
    /\ Len(requests) = 3
    /\ requests[3].start = 2

\* C8 as stated: a table returned without early termination has exactly the
\* number of rows the first response's cursor declares.
C8_CountEqualsTotal ==
    \A t \in 0..MaxTotal :
        (pc = "done" /\ outcome = "table" /\ ~EarlyTermination /\ Declares(t)) =>
            Len(result) = t

\* No page brought more rows than the declared total had left.
NoOvershoot(t) ==
    \A i \in 1..Len(responses) :
        requests[i].start + Len(responses[i].rows) <= t

\* C8, amended: when the cursor yields a total, a table returned without
\* early termination has at least that many rows, and exactly that many when
\* no page brought more rows than the total had left; after an early
\* termination it has fewer.
C8_CountAtLeastTotal ==
    (pc = "done" /\ outcome = "table" /\ cursor_data # <<>>) =>
        LET t == TotalRecords(cursor_data) IN
        /\ EarlyTermination => Len(result) < t
        /\ ~EarlyTermination =>
              /\ Len(result) >= t
              /\ NoOvershoot(t) => Len(result) = t

C8_Witness ==
    /\ pc = "done"
    /\ outcome = "table"
    /\ ~EarlyTermination
    /\ Len(requests) >= 2
    /\ cursor_data # <<>>
    /\ Len(result) > TotalRecords(cursor_data)

\* C9 as stated: a table is returned only when the accumulated rows have
\* reached the declared total or the last page had no rows, and no request is
\* outstanding once one of the two holds.
C9_FinalizedOnTotalOrEmptyPage ==
    /\ (pc = "done" /\ outcome = "table") =>
          \/ cursor_data # <<>> /\ Len(df) >= TotalRecords(cursor_data)
          \/ LastResponse.rows = <<>>
    /\ pc = "next" =>
          /\ cursor_data # <<>> /\ Len(df) < TotalRecords(cursor_data)
          /\ LastResponse.rows # <<>>

\* C9, amended: as C9, with a third situation in which the fetch finalizes:
\* the first response's cursor section has an empty data list, so that no
\* total is declared; the fetch then returns the first page.
C9_FinalizedOnTotalEmptyPageOrNoTotal ==
    /\ (pc = "done" /\ outcome = "table") =>
          \/ cursor_data = <<>> /\ Len(responses) = 1
          \/ cursor_data # <<>> /\ Len(df) >= TotalRecords(cursor_data)
          \/ LastResponse.rows = <<>>
    /\ pc = "next" =>
          /\ cursor_data # <<>> /\ Len(df) < TotalRecords(cursor_data)
          /\ LastResponse.rows # <<>>

C9_Witness ==
    /\ pc = "done"
    /\ outcome = "table"
    /\ cursor_data = <<>>
    /\ responses[1].cursor.sec = "data"

\* C10: a step of the fetch leaves the accumulated rows as they are or puts
\* the rows of the page just received behind them, in the server's order; so
\* the table never shrinks and holds every page's rows once, in order.
C10_AppendOnly ==
    [][/\ IF /\ Len(responses') = Len(responses) + 1
             /\ responses'[Len(responses')].rows # <<>>
          THEN df' = df \o responses'[Len(responses')].rows
          ELSE df' = df
       /\ df' = PagesBefore(Len(responses) + 1)']_vars

C10_Witness ==
    /\ Len(responses) = 3
    /\ Len(df) = 2 + MaxPage
    /\ Len(responses[1].rows) = 1

Max(a, b) == IF a >= b THEN a ELSE b

\* C11: a fetch whose requests are all answered ends; an iteration of the
\* loop that does not end the fetch adds at least one row, and the requests
\* after the first are at most the declared total less the rows of the first
\* page (none when the first page already holds the total).
C11_FetchTerminates ==
    /\ [](cursor_data # <<>> =>
            Len(requests) - 1 <=
                Max(0, TotalRecords(cursor_data) - Len(responses[1].rows)))
    /\ [][(pc = "next" /\ pc' = "next") => Len(df') > Len(df)]_vars
    /\ (pc \in {"first", "next"}) ~> (pc = "done")

C11_Witness ==
    /\ pc = "done"
    /\ Len(requests) = 3
    /\ cursor_data # <<>>
    /\ Len(requests) - 1 = TotalRecords(cursor_data) - Len(responses[1].rows)

\* C12: with a TRADEDATE column the table returned is in ascending order of
\* the trade date and holds the rows of all pages, each once; without the
\* column it is the accumulated table as it is.
C12_SortedPermutation ==
    (pc = "done" /\ outcome = "table") =>
        IF "TRADEDATE" \in df_columns
        THEN /\ \A i \in 1..(Len(result) - 1) : result[i].date <= result[i + 1].date
             /\ Len(result) = Len(AllPages)
             /\ RowSet(result) = RowSet(ToDatetimeColumn(AllPages))
        ELSE result = AllPages

C12_Witness ==
    /\ pc = "done"
    /\ outcome = "table"
    /\ "TRADEDATE" \in df_columns
    /\ Len(responses) = 2
    /\ Len(df) = 2
    /\ ToDatetime(df[1].date) > ToDatetime(df[2].date)
    /\ result[1].pos = 1 /\ result[1].req = 2

\* The place of the row r of the accumulated table in the table returned.
PlaceOf(r) ==
    CHOOSE i \in 1..Len(result) : result[i].req = r.req /\ result[i].pos = r.pos

\* C13: rows of one trade date keep, in the table returned, the order they
\* have in the accumulated table.
C13_SortIsStable ==
    (pc = "done" /\ outcome = "table" /\ "TRADEDATE" \in df_columns) =>
        \A i, j \in 1..Len(df) :
            (i < j /\ df[i].date = df[j].date) => PlaceOf(df[i]) < PlaceOf(df[j])

\* C14: the second of two fetches with the same arguments, against a
\* deterministic server, issues the requests of the first, one by one, and
\* ends as the first did, with the same table in the same order.
C14_SecondFetchRepeatsFirst ==
    prev # NoFetch =>
        /\ Len(requests) <= Len(prev.requests)
        /\ \A i \in 1..Len(requests) : requests[i] = prev.requests[i]
        /\ pc = "done" =>
              /\ requests = prev.requests
              /\ outcome = prev.outcome
              /\ result = prev.result

C14_Witness ==
    /\ prev # NoFetch
    /\ pc = "done"
    /\ outcome = "table"
    /\ Len(requests) = 3
    /\ result[1].req = 3
    /\ result[2].date = result[1].date

\* The text sent is the date given: a string as it is, a datetime as the text
\* that reads back as its day.
SentAs(sent, given) ==
    IF given.kind = "str" THEN sent = given.text ELSE ToDatetime(sent) = given.day

\* The indices the loop has passed were the first of the command line.
AttemptedInOrder ==
    /\ Len(recorded) + Len(remaining) = Len(command.indices)
    /\ \A i \in 1..Len(recorded) : recorded[i].code = command.indices[i]
    /\ \A i \in 1..Len(remaining) :
           remaining[i] = command.indices[Len(recorded) + i]

\* C15: in a batch download a fetch that raised is caught in download_index
\* and recorded as a failure of its index; the loop goes on: the indices are
\* attempted once each, in the order requested, the fetch that runs is the
\* one of the next index, and when the command ends every requested index
\* has one recorded outcome.
C15_BatchSurvivesFailures ==
    run \in {"running", "exited"} =>
        /\ AttemptedInOrder
        /\ \A i \in 1..Len(recorded) :
               recorded[i].fetched = "raised" =>
                   ~recorded[i].ok /\ recorded[i].saved = "none"
        /\ run = "running" =>
               /\ remaining # <<>>
               /\ args.security = Head(remaining)
        /\ run = "exited" =>
               /\ remaining = <<>>
               /\ Len(recorded) = Len(command.indices)
               /\ exit_code \in {0, 1}
               /\ command.name # "download" =>
                      DOMAIN Results(recorded)
                          = {command.indices[i] : i \in 1..Len(command.indices)}

\* The first of two indices failed in the fetch, the second was downloaded.
C15_Witness ==
    /\ run = "exited"
    /\ Len(recorded) = 2
    /\ recorded[1].fetched = "raised"
    /\ recorded[2].ok

\* C16: when a download command has ended, the exit status of the process
\* is 0 if every requested index was downloaded and 1 if one was not,
\* however the process was started.
C16_ExitCodeTellsFailure ==
    run = "exited" =>
        exit_code = IF \A i \in 1..Len(recorded) : recorded[i].ok THEN 0 ELSE 1

\* The name download_index gives the file of an index code on the day of
\* the run.
NamedFromCodeAndDate(r) ==
    r.path = <<command.output, r.code, "_">> \o Strftime(today) \o <<".csv">>

\* The paths the passed indices created or truncated.
Touched == {recorded[i].path : i \in {j \in 1..Len(recorded) :
                                         recorded[j].saved \in {"ok", "write"}}}

\* Nothing exists but what the passed indices left; no directory exists
\* unless an index got as far as mkdir.
OnlyFilesOfTables ==
    /\ {f.path : f \in files} = Touched
    /\ dirs = IF \E i \in 1..Len(recorded) :
                     recorded[i].saved \in {"ok", "open", "write"}
              THEN {command.output} ELSE {}

\* C17 as stated: every index whose fetch returned a non-empty table has
\* its file written, named from the code and the date; an index whose fetch
\* failed or was empty has no file written and no directory created;
\* download_index returns a table exactly when the file was written.
C17_OneFilePerTable ==
    /\ OnlyFilesOfTables
    /\ \A i \in 1..Len(recorded) :
        LET r == recorded[i]
        IN  /\ r.fetched = "table" => r.saved = "ok" /\ NamedFromCodeAndDate(r)
            /\ r.fetched \in {"raised", "empty"} => r.saved = "none"
            /\ r.ok <=> r.saved = "ok"

\* C17: download_index tries to save once, under the name made of the code
\* and the date, for every index whose fetch returned a non-empty table, and
\* the file is written unless mkdir or to_csv raises; an index whose fetch
\* failed or was empty has no file written and no directory created;
\* download_index returns a table exactly when the file was written.
C17_OneFilePerSavedTable ==
    /\ OnlyFilesOfTables
    /\ \A i \in 1..Len(recorded) :
        LET r == recorded[i]
        IN  /\ r.fetched = "table" =>
                   /\ r.saved \in {"ok", "mkdir", "open", "write"}
                   /\ NamedFromCodeAndDate(r)
            /\ r.fetched \in {"raised", "empty"} => r.saved = "none"
            /\ r.ok <=> r.saved = "ok"
            /\ r.saved = "ok" /\ (\A j \in (i + 1)..Len(recorded) :
                                     recorded[j].path # r.path) =>
                   [path |-> r.path, complete |-> TRUE] \in files

\* Two indices in one run: a table saved, then a table whose save failed
\* and left nothing.
C17_Witness ==
    /\ Len(recorded) = 2
    /\ recorded[1].ok
    /\ recorded[2].fetched = "table"
    /\ recorded[2].saved = "mkdir"
    /\ Cardinality(files) = 1

\* C18: a from-date left out is sent as the day 30 days before today, a
\* till-date left out as today, and a date that is given is sent as given.
C18_DateDefaults ==
    \A i \in 1..Len(requests) :
        /\ IF args.from_date.kind = "none"
           THEN ToDatetime(requests[i].from) = today - 30
           ELSE SentAs(requests[i].from, args.from_date)
        /\ IF args.till_date.kind = "none"
           THEN ToDatetime(requests[i].till) = today
           ELSE SentAs(requests[i].till, args.till_date)

C18_Witness ==
    /\ pc = "first"
    /\ args.from_date.kind = "none"
    /\ args.till_date.kind = "str"
    /\ today = DaysFromCivil(2024, 3, 15)
    /\ requests[1].from = <<2024, 2, 14>>

\* The day a given date falls on.
DayOf(given) == IF given.kind = "str" THEN ToDatetime(given.text) ELSE given.day

\* C19: a till-date before the from-date is not touched: both dates go out
\* as given, nothing is raised but the failure of a request, and the answer
\* of the server is processed as any other.
C19_DateOrderNotChecked ==
    (/\ requests # <<>>
     /\ args.from_date.kind # "none"
     /\ args.till_date.kind # "none"
     /\ DayOf(args.till_date) < DayOf(args.from_date)) =>
        /\ \A i \in 1..Len(requests) :
              /\ SentAs(requests[i].from, args.from_date)
              /\ SentAs(requests[i].till, args.till_date)
        /\ outcome = "raised" => LastResponse.kind = "fail"

C19_Witness ==
    /\ pc = "done"
    /\ outcome = "table"
    /\ Len(requests) = 2
    /\ args.from_date = DateStr(2024, 2, 1)
    /\ args.till_date = DateTime(DaysFromCivil(2023, 12, 31))
    /\ requests[2].till = <<2023, 12, 31>>

\* C20: every request of a fetch carries the url, from, till, interval (and
\* lang) of the first one; only start differs.
C20_OnlyStartChanges ==
    \A i \in 1..Len(requests) :
        /\ [requests[i] EXCEPT !.start = 0] = requests[1]
        /\ requests[i].interval = args.interval
        /\ requests[i].url =
              Url(args.engine, args.market, args.board, args.security) \o <<".json">>

C20_Witness ==
    /\ Len(requests) = 3
    /\ requests[3].start = 2
    /\ requests[3].interval = 1
    /\ args.from_date.kind = "none"

\* C22: a fetch that ended early (a later page had no rows while the table
\* was shorter than the declared total) has logged a warning and has not
\* raised.
C22_EarlyTerminationWarns ==
    (pc = "done" /\ EarlyTermination) =>
        /\ outcome = "table"
        /\ \E i \in 1..Len(log) : log[i] = "warning"

\* C24: the total that bounds the loop is the one of the first response's
\* cursor: cursor_data stays what the first response gave, every later
\* request was issued below that total, and a fetch whose last page had rows
\* stopped because the table had reached it, whatever totals the later pages
\* declared.
C24_TotalReadOnce ==
    (pc \in {"next", "done"} /\ df # <<>>) =>
        LET first == CursorData(responses[1])
        IN  /\ cursor_data = first
            /\ \A i \in 2..Len(requests) :
                   first # <<>> /\ requests[i].start < TotalRecords(first)
            /\ (/\ pc = "done"
                /\ outcome = "table"
                /\ LastResponse.kind = "ok"
                /\ LastResponse.rows # <<>>
                /\ first # <<>>) => Len(df) >= TotalRecords(first)

\* The second page declared a larger total than the first; the loop stopped
\* at the total of the first.
C24_Witness ==
    /\ pc = "done"
    /\ outcome = "table"
    /\ Declares(2)
    /\ Len(requests) = 2
    /\ Len(df) = 2
    /\ responses[2].cursor.data = << <<0, total_limit, page_limit>> >>

\* C23: an index whose fetch gave an empty result is not downloaded:
\* nothing is saved for it and its recorded outcome is a failure; a command
\* that met one returns 1, and through cli.py the process exits with 1.
C23_EmptyCountsAsFailure ==
    /\ \A i \in 1..Len(recorded) :
           recorded[i].fetched = "empty" =>
               ~recorded[i].ok /\ recorded[i].saved = "none"
    /\ (run = "exited" /\ \E i \in 1..Len(recorded) :
                              recorded[i].fetched = "empty") =>
           /\ return_code = 1
           /\ entry = "cli" => exit_code = 1
           /\ command.name = "download" =>
                  SuccessCount(recorded) < Len(command.indices)
           /\ command.name # "download" =>
                  \E c \in DOMAIN Results(recorded) : ~Results(recorded)[c]

\* No request failed: one index was downloaded, the other had no data.
C23_Witness ==
    /\ run = "exited"
    /\ entry = "cli"
    /\ Len(recorded) = 2
    /\ recorded[1].ok
    /\ recorded[2].fetched = "empty"
    /\ return_code = 1

\* The board the registries give a code.
ExpectedBoard(index_code) ==
    IF index_code = "RTSI" THEN "RTSI" ELSE "SNDX"

\* C25: the fetch of download_index goes to the board EQUITY_INDICES records
\* for the code, else the one BOND_INDICES records, else SNDX; the two dicts
\* are what the module defined, whatever download, list or info has run.
C25_BoardFromRegistry ==
    /\ registry = Registry
    /\ (run = "running" /\ command.name # "info") =>
           /\ args.security = Head(remaining)
           /\ args.board = ExpectedBoard(args.security)
           /\ url = Url("stock", "index", ExpectedBoard(args.security),
                        args.security)

\* The second index of download-equity is fetched from the board RTSI.
C25_Witness ==
    /\ run = "running"
    /\ command.name = "download-equity"
    /\ Len(recorded) = 1
    /\ args.security = "RTSI"
    /\ args.board = "RTSI"
    /\ pc = "next"

\* C26: a download command without a start date requests its data from
\* 2010-01-01, not from 30 days before today; download_index always hands
\* both dates to the client, so the defaults of get_historical_data are
\* not taken.
C26_StartDefaultsTo2010 ==
    (run = "running" /\ command.name # "info") =>
        /\ args.from_date.kind = "str"
        /\ args.till_date.kind = "str"
        /\ \A i \in 1..Len(requests) :
               IF command.start = NoDate
               THEN /\ requests[i].from = <<2010, 1, 1>>
                    /\ requests[i].from # Strftime(today - DefaultDays)
               ELSE requests[i].from = command.start.text

C26_Witness ==
    /\ run = "running"
    /\ command.name = "download"
    /\ command.start = NoDate
    /\ Len(requests) = 2
    /\ requests[2].from = <<2010, 1, 1>>

\* C21: download_to_csv always returns a bool: True exactly when the fetch
\* gave a non-empty table and the file was written, False when the fetch
\* raised, the result was empty or the writing failed; after a fetch that
\* raised or was empty no file has been written.
C21_DownloadToCsvReturnsBool ==
    csv.state = "returned" =>
        /\ csv.value \in {"True", "False"}
        /\ csv.value = "True" <=> (csv.fetched = "table" /\ csv.saved = "ok")
        /\ csv.value = "True" =>
               [path |-> <<csv.output_path>>, complete |-> TRUE] \in files
        /\ csv.fetched \in {"raised", "empty"} =>
               /\ csv.value = "False"
               /\ csv.saved = "none"
               /\ files = {}
        /\ csv.saved \in {"open", "write"} => csv.value = "False"

\* The request for the second page failed; download_to_csv returned False.
C21_Witness ==
    /\ csv.state = "returned"
    /\ csv.fetched = "raised"
    /\ Len(requests) = 2
    /\ csv.value = "False"
    /\ files = {}

====
